---- MODULE Spec2Model ----
(***************************************************************************)
(* Model of import_csvs_to_sheets.py: the CSV -> Google Sheets importer.   *)
(*                                                                         *)
(* A Python str is a sequence of one-character strings, so that strip,     *)
(* lower, re.sub, replace and slicing are computed, not assumed.  None is  *)
(* the one-element sequence <<"None">>, which no text equals.  A dict is   *)
(* a sequence of <<key, value>> pairs with distinct keys, in insertion     *)
(* order.                                                                  *)
(***************************************************************************)
EXTENDS Integers, Sequences, FiniteSets, TLC

\* ------------------------------------------------------------------ bounds

\* The most data rows over all the input files of a run.
MaxRows == 2
\* The longest string handed to normalize_phone in SpecPhone.
MaxLen == 11

\* ------------------------------------------------------------------ text

None == <<"None">>

Digits == {"0", "1", "2", "3", "4", "5", "6", "7", "8", "9"}

UpperCase == <<"A", "B", "C", "D", "E", "F", "G", "H", "I", "J", "K", "L", "M",
               "N", "O", "P", "Q", "R", "S", "T", "U", "V", "W", "X", "Y", "Z">>

LowerCase == <<"a", "b", "c", "d", "e", "f", "g", "h", "i", "j", "k", "l", "m",
               "n", "o", "p", "q", "r", "s", "t", "u", "v", "w", "x", "y", "z">>

Whitespace == {" "}

ToLower ==
    [c \in {UpperCase[i] : i \in 1..Len(UpperCase)} |->
        LowerCase[CHOOSE i \in 1..Len(UpperCase) : UpperCase[i] = c]]

\* str.lower(), one character
LowerChar(c) == IF c \in DOMAIN ToLower THEN ToLower[c] ELSE c

\* str.lower()
RECURSIVE Lower(_)
Lower(s) == IF s = <<>> THEN <<>> ELSE <<LowerChar(Head(s))>> \o Lower(Tail(s))

RECURSIVE LStrip(_, _)
LStrip(s, chars) ==
    IF s # <<>> /\ Head(s) \in chars THEN LStrip(Tail(s), chars) ELSE s

RECURSIVE RStrip(_, _)
RStrip(s, chars) ==
    IF s # <<>> /\ s[Len(s)] \in chars THEN RStrip(SubSeq(s, 1, Len(s) - 1), chars) ELSE s

\* str.strip(): leading and trailing whitespace removed
Strip(s) == RStrip(LStrip(s, Whitespace), Whitespace)

\* str.strip('_')
StripUnderscore(s) == RStrip(LStrip(s, {"_"}), {"_"})

StartsWithAt(s, sub, i) ==
    /\ i + Len(sub) - 1 <= Len(s)
    /\ SubSeq(s, i, i + Len(sub) - 1) = sub

\* sub in s
Contains(s, sub) == \E i \in 1..(Len(s) - Len(sub) + 1) : StartsWithAt(s, sub, i)

\* str.replace(old, new): leftmost non-overlapping occurrences
RECURSIVE Replace(_, _, _)
Replace(s, old, new) ==
    IF s = <<>> THEN <<>>
    ELSE IF StartsWithAt(s, old, 1)
         THEN new \o Replace(SubSeq(s, Len(old) + 1, Len(s)), old, new)
         ELSE <<Head(s)>> \o Replace(Tail(s), old, new)

IsDigit(c) == c \in Digits

\* re.sub(r'\D', '', s)
StripNonDigits(s) == SelectSeq(s, IsDigit)

\* f"{digits[0:3]}.{digits[3:6]}.{digits[6:10]}"
FormatPhone(digits) ==
    SubSeq(digits, 1, 3) \o <<".">> \o SubSeq(digits, 4, 6) \o <<".">> \o SubSeq(digits, 7, 10)

\* ------------------------------------------------------------------ names

kw_email == <<"e", "m", "a", "i", "l">>
kw_phone == <<"p", "h", "o", "n", "e">>
kw_string == <<"s", "t", "r", "i", "n", "g">>
kw_date == <<"d", "a", "t", "e">>

n_amountpaid == <<"a", "m", "o", "u", "n", "t", "p", "a", "i", "d">>
n_slotitemid == <<"s", "l", "o", "t", "i", "t", "e", "m", "i", "d">>
n_hastime == <<"h", "a", "s", "t", "i", "m", "e">>
n_status == <<"s", "t", "a", "t", "u", "s">>
n_starttime == <<"s", "t", "a", "r", "t", "t", "i", "m", "e">>
n_startdate == <<"s", "t", "a", "r", "t", "d", "a", "t", "e">>
n_phonetype == <<"p", "h", "o", "n", "e", "t", "y", "p", "e">>
n_offset == <<"o", "f", "f", "s", "e", "t">>
n_endtime == <<"e", "n", "d", "t", "i", "m", "e">>
n_itemmemberid == <<"i", "t", "e", "m", "m", "e", "m", "b", "e", "r", "i", "d">>
n_signupid == <<"s", "i", "g", "n", "u", "p", "i", "d">>
n_signedupdate == <<"s", "i", "g", "n", "e", "d", "u", "p", "d", "a", "t", "e">>
n_enddate == <<"e", "n", "d", "d", "a", "t", "e">>
n_waitlist == <<"w", "a", "i", "t", "l", "i", "s", "t">>

exclude_columns ==
    {n_amountpaid, n_slotitemid, n_hastime, n_status, n_starttime, n_startdate,
     n_phonetype, n_offset, n_endtime, n_itemmemberid, n_signupid, n_signedupdate,
     n_enddate, n_waitlist}

\* ------------------------------------------------------------------ dict

\* list(d.keys())
Keys(d) == [i \in 1..Len(d) |-> d[i][1]]

\* list(d.values())
Values(d) == [i \in 1..Len(d) |-> d[i][2]]

HasKey(d, k) == \E i \in 1..Len(d) : d[i][1] = k

\* d.get(k, default)
Get(d, k, default) ==
    IF HasKey(d, k) THEN d[CHOOSE i \in 1..Len(d) : d[i][1] = k][2] ELSE default

\* d.pop(k), the dict that remains
Pop(d, k) == SelectSeq(d, LAMBDA p : p[1] # k)

\* d[k] = v: an existing key keeps its place, a new key goes last
SetItem(d, k, v) ==
    IF HasKey(d, k)
    THEN [i \in 1..Len(d) |-> IF d[i][1] = k THEN <<k, v>> ELSE d[i]]
    ELSE Append(d, <<k, v>>)

\* csv.DictReader: one dict per data row, keyed by the header line
DictReader(f) ==
    [r \in 1..Len(f.rows) |-> [c \in 1..Len(f.header) |-> <<f.header[c], f.rows[r][c]>>]]

\* ------------------------------------------------------------------ phones

\* `phone or ''`
OrEmpty(v) == IF v = None THEN <<>> ELSE v

\* normalize_phone, with the leading-1 rule left out
normalize_phone_no_country(phone) ==
    LET digits == StripNonDigits(OrEmpty(phone))
    IN  IF Len(digits) = 10 THEN FormatPhone(digits) ELSE None

normalize_phone(phone) ==
    LET digits0 == StripNonDigits(OrEmpty(phone))
        digits == IF digits0 # <<>> /\ Head(digits0) = "1" /\ Len(digits0) = 11
                  THEN Tail(digits0) ELSE digits0
    IN  IF Len(digits) = 10 THEN FormatPhone(digits) ELSE None

\* ------------------------------------------------------------------ dates

\* The one timestamp text of the model that dateutil parses: 2025-01-15,
\* no time of day, no timezone.
DateText == <<"2", "0", "2", "5", "-", "0", "1", "-", "1", "5">>

DecDigit == <<"0", "1", "2", "3", "4", "5", "6", "7", "8", "9">>

RECURSIVE Dec(_)
Dec(n) == IF n < 10 THEN <<DecDigit[n + 1]>> ELSE Dec(n \div 10) \o <<DecDigit[(n % 10) + 1]>>

\* date_parser.parse on the texts of the model: <<parsed, days, minutes>>
\* since 1899-12-30T00:00 of the naive timestamp read; every other text of
\* the model raises, which the code swallows.
date_parser_parse(v) == IF v = DateText THEN <<TRUE, 45672, 0>> ELSE <<FALSE, 0, 0>>

\* Lines 155-167: a naive timestamp is taken as UTC, moved to US/Eastern
\* (UTC-5 on the model's winter date) and turned into days since 1899-12-30.
\* The float days + seconds/86400 is written "#" followed by its numerator
\* over 1440, the minutes of a day.
DateToSerial(v) ==
    LET p == date_parser_parse(v)
        local == p[2] * 1440 + p[3] - 5 * 60
    IN  IF p[1] THEN <<"#">> \o Dec(local) ELSE v

\* ------------------------------------------------------------------ rows

\* FilterExcluded, dropping nothing
FilterExcluded_keeps_all(row) == row

\* {k: v for k, v in row.items() if k not in exclude_columns}
FilterExcluded(row) == SelectSeq(row, LAMBDA p : p[1] \notin exclude_columns)

\* key.replace('string', '').replace('__', '_').strip('_')
CleanKey(key) == StripUnderscore(Replace(Replace(key, kw_string, <<>>), <<"_", "_">>, <<"_">>))

\* for key in list(filtered_row.keys()): rename the keys containing 'string'
RECURSIVE RenameKeys(_, _)
RenameKeys(d, ks) ==
    IF ks = <<>> THEN d
    ELSE LET key == Head(ks)
         IN  IF Contains(key, kw_string)
             THEN RenameKeys(SetItem(Pop(d, key), CleanKey(key), Get(d, key, None)), Tail(ks))
             ELSE RenameKeys(d, Tail(ks))

Truthy(v) == v # None /\ v # <<>>

\* ConvertValue, without the phone branch
ConvertValue_dates_only(key, v) ==
    IF Contains(Lower(key), kw_date) /\ Truthy(v) THEN DateToSerial(v) ELSE v

\* for key in filtered_row: normalize phones, convert dates
ConvertValue(key, v) ==
    LET v1 == IF Contains(Lower(key), kw_phone) THEN normalize_phone(v) ELSE v
    IN  IF Contains(Lower(key), kw_date) /\ Truthy(v1) THEN DateToSerial(v1) ELSE v1

ConvertValues(d) == [i \in 1..Len(d) |-> <<d[i][1], ConvertValue(d[i][1], d[i][2])>>]

\* The body of `for row in reader` in import_csv_to_sheet
TransformRow(row) ==
    LET filtered_row == FilterExcluded(row)
    IN  ConvertValues(RenameKeys(filtered_row, Keys(filtered_row)))

\* ------------------------------------------------------------------ index

EmptyMap == [k \in {} |-> <<>>]

\* m.get(k, default)
MapGet(m, k, default) == IF k \in DOMAIN m THEN m[k] ELSE default

\* IndexRow, without the `email not in email_phone_map` test: last valid wins
IndexRow_last_wins(m, row) ==
    LET email == Lower(Strip(Get(row, kw_email, <<>>)))
        phone == Strip(Get(row, kw_phone, <<>>))
        digits == StripNonDigits(phone)
    IN  IF email # <<>> /\ Len(digits) = 10
        THEN (email :> FormatPhone(digits)) @@ m
        ELSE m

\* One record of build_global_email_phone_map (lines 255-261)
IndexRow(m, row) ==
    LET email == Lower(Strip(Get(row, kw_email, <<>>)))
        phone == Strip(Get(row, kw_phone, <<>>))
        digits == StripNonDigits(phone)
    IN  IF email # <<>> /\ Len(digits) = 10 /\ email \notin DOMAIN m
        THEN (email :> FormatPhone(digits)) @@ m
        ELSE m

RECURSIVE IndexRows(_, _)
IndexRows(m, rows) ==
    IF rows = <<>> THEN m ELSE IndexRows(IndexRow(m, Head(rows)), Tail(rows))

RECURSIVE IndexFiles(_, _)
IndexFiles(m, fs) ==
    IF fs = <<>> THEN m ELSE IndexFiles(IndexRows(m, DictReader(Head(fs))), Tail(fs))

\* build_global_email_phone_map, stopping after the first file
build_first_file_only(fs) == IndexFiles(EmptyMap, <<Head(fs)>>)

build_global_email_phone_map(fs) == IndexFiles(EmptyMap, fs)

\* ------------------------------------------------------------------ backfill

\* next((i for i, h in enumerate(header) if sub in h.lower()), None); 0 is None
FirstIndex(header, sub) ==
    LET S == {i \in 1..Len(header) : Contains(Lower(header[i]), sub)}
    IN  IF S = {} THEN 0 ELSE CHOOSE i \in S : \A j \in S : i <= j

\* qa_row, looking the index up first
qa_row_index_first(row, phone_idx, email_idx, m) ==
    LET email == Lower(Strip(row[email_idx]))
        phone == normalize_phone(row[phone_idx])
    IN  [row EXCEPT ![phone_idx] = IF email \in DOMAIN m THEN m[email]
                                   ELSE IF Truthy(phone) THEN phone ELSE <<>>]

\* qa_row, looking the email cell up as it stands
qa_row_exact_email(row, phone_idx, email_idx, m) ==
    LET phone == normalize_phone(row[phone_idx])
    IN  [row EXCEPT ![phone_idx] =
            IF Truthy(phone) THEN phone ELSE MapGet(m, row[email_idx], <<>>)]

\* qa_row, storing the email key back into the row
qa_row_writes_email(row, phone_idx, email_idx, m) ==
    LET email == Lower(Strip(row[email_idx]))
        phone == normalize_phone(row[phone_idx])
    IN  [row EXCEPT ![phone_idx] = IF Truthy(phone) THEN phone ELSE MapGet(m, email, <<>>),
                    ![email_idx] = email]

qa_row(row, phone_idx, email_idx, m) ==
    LET email == Lower(Strip(row[email_idx]))
        phone == normalize_phone(row[phone_idx])
    IN  [row EXCEPT ![phone_idx] = IF Truthy(phone) THEN phone ELSE MapGet(m, email, <<>>)]

qa_phone_numbers_with_global_map(rows, header, m) ==
    LET phone_idx == FirstIndex(header, kw_phone)
        email_idx == FirstIndex(header, kw_email)
    IN  IF phone_idx = 0 \/ email_idx = 0 THEN rows
        ELSE [r \in 1..Len(rows) |-> qa_row(rows[r], phone_idx, email_idx, m)]

\* ------------------------------------------------------------------ sheets

\* worksheet.clear() left out
worksheet_clear_skipped(grid) == grid

\* worksheet.clear()
worksheet_clear(grid) == <<>>

Max(a, b) == IF a >= b THEN a ELSE b

RowAt(grid, r) == IF r <= Len(grid) THEN grid[r] ELSE <<>>

\* worksheet.update(values=data, range_name='A1'): the cells of data are
\* written from the top left corner, every other cell keeps what it held
worksheet_update(grid, values) ==
    [r \in 1..Max(Len(grid), Len(values)) |->
        [c \in 1..Max(Len(RowAt(grid, r)), Len(RowAt(values, r))) |->
            IF c <= Len(RowAt(values, r)) THEN values[r][c] ELSE grid[r][c]]]

\* os.path.splitext(os.path.basename(csv_file))[0]
sheet_name(csv_file) == csv_file.base

\* ------------------------------------------------------------------ inputs

t_v == <<"v">>
t_old == <<"o", "l", "d">>
t_epoch == <<"1", "7">>

e_AX == <<"A", "@", "X", ".", "c", "o", "m">>
e_ax == <<"a", "@", "x", ".", "c", "o", "m">>
e_ax_padded == <<" ", "a", "@", "x", ".", "c", "o", "m", " ">>
e_by == <<"b", "@", "y", ".", "o", "r", "g">>
e_AX_padded == <<" ", "A", "@", "X", ".", "c", "o", "m", " ">>
e_blank == <<" ">>

p_555 == <<"(", "5", "5", "5", ")", " ", "1", "2", "3", "-", "4", "5", "6", "7">>
p_other == <<" ", "5", "5", "5", "-", "0", "0", "0", "-", "1", "1", "1", "1">>
p_country == <<"1", " ", "5", "5", "5", " ", "0", "0", "0", " ", "2", "2", "2", "2">>
p_bad == <<"b", "a", "d">>

f_555 == <<"5", "5", "5", ".", "1", "2", "3", ".", "4", "5", "6", "7">>

\* The <<email, phone>> pairs a data row is made of
Contacts ==
    {<<e_AX, p_555>>, <<e_ax, p_bad>>, <<e_ax_padded, p_other>>,
     <<e_by, p_country>>, <<e_blank, p_555>>, <<e_AX_padded, <<>>>>}

h_Email == <<"E", "m", "a", "i", "l">>
h_Phone == <<"P", "h", "o", "n", "e">>
h_name == <<"n", "a", "m", "e">>
h_phonestring == kw_phone \o kw_string
h_statusstring == n_status \o kw_string
h_startdatestring == n_startdate \o kw_string

\* The header lines of the model's CSV files
Headers ==
    << <<n_startdate, kw_email, kw_phone, h_statusstring, h_startdatestring>>,
       <<h_Email, h_Phone, h_phonestring>>,
       <<h_name, kw_phone>>,
       <<kw_email, n_phonetype>> >>

\* What the columns of each header line hold: the contact's email ("e") or
\* phone ("p"), a timestamp ("d"), an epoch number ("n") or a word ("v")
Holds ==
    << <<"n", "e", "p", "v", "d">>,
       <<"e", "p", "p">>,
       <<"e", "p">>,
       <<"e", "p">> >>

\* The cells of the data row of contact c under header line number h
RowCells(h, c) ==
    [i \in 1..Len(Holds[h]) |->
        CASE Holds[h][i] = "e" -> c[1]
          [] Holds[h][i] = "p" -> c[2]
          [] Holds[h][i] = "d" -> DateText
          [] Holds[h][i] = "n" -> t_epoch
          [] OTHER -> t_v]

\* The base names of the CSV files the directory can hold, in glob order
CsvBases == <<"people", "signups">>

\* owner[i] is the file that holds the i-th row; rows keep their order
Splits(n, k) == {o \in [1..n -> 1..k] : \A i \in 1..n, j \in 1..n : i <= j => o[i] <= o[j]}

RowsOf(h, flat, owner, j) ==
    LET mine == SelectSeq([i \in 1..Len(flat) |-> i], LAMBDA i : owner[i] = j)
    IN  [r \in 1..Len(mine) |-> RowCells(h, flat[mine[r]])]

\* glob.glob(os.path.join(csv_dir, "*.csv")) with what each file holds
CsvFile(j, shift, flat, owner) ==
    LET h == ((j + shift - 1) % Len(Headers)) + 1
    IN  [base |-> CsvBases[j], header |-> Headers[h], rows |-> RowsOf(h, flat, owner, j)]

InputRuns ==
    {<<>>} \cup
    UNION {UNION {{[j \in 1..k |-> CsvFile(j, shift, flat, owner)] :
                      shift \in 0..(Len(Headers) - 1),
                      flat \in [1..n -> Contacts],
                      owner \in Splits(n, k)} : n \in 0..MaxRows} : k \in 1..Len(CsvBases)}

\* What the sheet "people" holds before the run: one row, wider than any grid
OldGrid == << <<t_old, t_old, t_old, t_old, t_old, t_old>> >>

PhoneAlphabet == {"1", "5", "-"}

\* ------------------------------------------------------------------ state

VARIABLES
    files,                   \* csv_files with their contents
    workbook,                \* title -> grid of every worksheet
    calls,                   \* the gspread calls made, in order
    global_email_phone_map,  \* main's global_email_phone_map
    pc,                      \* where main is
    attempted,               \* the files import_csv_to_sheet was called for
    result,                  \* how the last import_csv_to_sheet ended
    filtered_data,           \* its rows as handed to the backfiller
    headers,                 \* its headers
    data,                    \* its grid as handed to worksheet.update
    phone_arg,               \* SpecPhone: the argument of normalize_phone
    phone_ret                \* SpecPhone: what normalize_phone returned

vars == <<files, workbook, calls, global_email_phone_map, pc, attempted, result,
          filtered_data, headers, data, phone_arg, phone_ret>>

run_vars == <<files, workbook, calls, global_email_phone_map, pc, attempted, result,
              filtered_data, headers, data>>

Init ==
    /\ files \in InputRuns
    /\ workbook = (CsvBases[1] :> OldGrid)
    /\ calls = <<>>
    /\ global_email_phone_map = EmptyMap
    /\ pc = "glob"
    /\ attempted = <<>>
    /\ result = "none"
    /\ filtered_data = <<>>
    /\ headers = <<>>
    /\ data = <<>>
    /\ phone_arg = None
    /\ phone_ret = None

\* main, lines 305-308: no CSV file, nothing to do
MainGlob ==
    /\ pc = "glob"
    /\ pc' = IF files = <<>> THEN "done" ELSE "build"
    /\ UNCHANGED <<files, workbook, calls, global_email_phone_map, attempted, result,
                   filtered_data, headers, data, phone_arg, phone_ret>>

\* main, lines 311-312: open() of a file may raise, and nothing catches it
MainBuild ==
    /\ pc = "build"
    /\ \E readable \in BOOLEAN :
        IF readable
        THEN /\ global_email_phone_map' = build_global_email_phone_map(files)
             /\ pc' = "import"
        ELSE /\ pc' = "raised"
             /\ UNCHANGED global_email_phone_map
    /\ UNCHANGED <<files, workbook, calls, attempted, result, filtered_data, headers,
                   data, phone_arg, phone_ret>>

\* How a call of import_csv_to_sheet can go
Outcomes == {"ok", "worksheet_error", "open_error", "update_error", "format_error"}

\* Lines 139-170: the transformed rows of the file
ReadRows(csv_file) ==
    [r \in 1..Len(csv_file.rows) |-> TransformRow(DictReader(csv_file)[r])]

\* Lines 174-180: headers, the rows before the backfill, and the grid
BuildGrid(rows, m) ==
    LET hdr == Keys(rows[1])
        cells == [r \in 1..Len(rows) |-> Values(rows[r])]
    IN  [headers |-> hdr,
         filtered_data |-> cells,
         data |-> <<hdr>> \o qa_phone_numbers_with_global_map(cells, hdr, m)]

\* Lines 127-131: the worksheet of that title, cleared, or a new one
OpenWorksheet(wb, title) ==
    IF title \in DOMAIN wb
    THEN [wb EXCEPT ![title] = worksheet_clear(wb[title])]
    ELSE (title :> <<>>) @@ wb

\* import_csv_to_sheet(workbook, csv_file, global_email_phone_map)
ImportCsvToSheet(csv_file, outcome) ==
    LET title == sheet_name(csv_file)
        opening == IF title \in DOMAIN workbook THEN "clear" ELSE "add_worksheet"
    IN  /\ attempted' = Append(attempted, title)
        /\ UNCHANGED <<files, global_email_phone_map, phone_arg, phone_ret>>
        /\ CASE outcome = "worksheet_error" ->
                  \* lines 128-131 raise something other than WorksheetNotFound
                  /\ result' = "raised"
                  /\ calls' = Append(calls, <<"worksheet", title>>)
                  /\ UNCHANGED <<workbook, filtered_data, headers, data>>
             [] outcome = "open_error" ->
                  \* line 139 raises
                  /\ result' = "raised"
                  /\ workbook' = OpenWorksheet(workbook, title)
                  /\ calls' = Append(calls, <<opening, title>>)
                  /\ UNCHANGED <<filtered_data, headers, data>>
             [] outcome = "ok" /\ csv_file.rows = <<>> ->
                  \* line 173: no data row, nothing is written
                  /\ result' = "imported"
                  /\ workbook' = OpenWorksheet(workbook, title)
                  /\ calls' = Append(calls, <<opening, title>>)
                  /\ filtered_data' = <<>>
                  /\ headers' = <<>>
                  /\ data' = <<>>
             [] outcome \in {"ok", "update_error", "format_error"} /\ csv_file.rows # <<>> ->
                  \* update_error: line 183 raises; format_error: line 225 raises
                  \* after line 183 wrote; lines 227-229 report either
                  \E g \in {BuildGrid(ReadRows(csv_file), global_email_phone_map)} :
                      /\ result' = IF outcome = "ok" THEN "imported" ELSE "reported"
                      /\ workbook' =
                            IF outcome = "update_error"
                            THEN OpenWorksheet(workbook, title)
                            ELSE [OpenWorksheet(workbook, title) EXCEPT
                                    ![title] = worksheet_update(@, g.data)]
                      /\ calls' = calls \o << <<opening, title>>, <<"update", title>> >>
                      /\ filtered_data' = g.filtered_data
                      /\ headers' = g.headers
                      /\ data' = g.data
             [] OTHER -> FALSE

\* main, lines 314-316: an exception of import_csv_to_sheet ends main
MainImport ==
    /\ pc = "import"
    /\ Len(attempted) < Len(files)
    /\ \E outcome \in Outcomes :
        /\ ImportCsvToSheet(files[Len(attempted) + 1], outcome)
        /\ pc' = IF result' = "raised" THEN "raised" ELSE "import"

\* main, lines 318-321: the order of the sheets is not part of the model,
\* but the batch_update of sort_sheets_alphabetically may raise
MainSort ==
    /\ pc = "import"
    /\ Len(attempted) = Len(files)
    /\ \E sorted \in BOOLEAN : pc' = IF sorted THEN "done" ELSE "raised"
    /\ UNCHANGED <<files, workbook, calls, global_email_phone_map, attempted, result,
                   filtered_data, headers, data, phone_arg, phone_ret>>

Next == MainGlob \/ MainBuild \/ MainImport \/ MainSort

Spec == Init /\ [][Next]_vars

\* ------------------------------------------------------------------ SpecPhone

\* normalize_phone on its own, called on every string over PhoneAlphabet of
\* length up to MaxLen, and on None
Uncalled == <<"uncalled">>

InitPhone ==
    /\ files = <<>>
    /\ workbook = (CsvBases[1] :> OldGrid)
    /\ calls = <<>>
    /\ global_email_phone_map = EmptyMap
    /\ pc = "done"
    /\ attempted = <<>>
    /\ result = "none"
    /\ filtered_data = <<>>
    /\ headers = <<>>
    /\ data = <<>>
    /\ phone_arg \in {None, <<>>}
    /\ phone_ret = Uncalled

\* normalize_phone(phone_arg), first on None and on ''
CallNormalizePhone ==
    /\ phone_ret = Uncalled
    /\ phone_ret' = normalize_phone(phone_arg)
    /\ UNCHANGED <<run_vars, phone_arg>>

\* normalize_phone on the argument grown by one character
CallNormalizePhoneLonger ==
    /\ phone_ret # Uncalled
    /\ Len(OrEmpty(phone_arg)) < MaxLen
    /\ \E c \in PhoneAlphabet :
        /\ phone_arg' = Append(OrEmpty(phone_arg), c)
        /\ phone_ret' = normalize_phone(phone_arg')
    /\ UNCHANGED run_vars

NextPhone == CallNormalizePhone \/ CallNormalizePhoneLonger

SpecPhone == InitPhone /\ [][NextPhone]_vars

\* ------------------------------------------------------------------ claims

\* DDD.DDD.DDDD
IsNormalizedPhone(v) ==
    /\ Len(v) = 12
    /\ \A i \in 1..12 : IF i \in {4, 8} THEN v[i] = "." ELSE v[i] \in Digits

\* The file the last call of import_csv_to_sheet was for
LastFile == files[Len(attempted)]

\* The last call of import_csv_to_sheet reached the backfiller
Backfilled == result \in {"imported", "reported"} /\ data # <<>>

PhoneColumn == FirstIndex(headers, kw_phone)

EmailColumn == FirstIndex(headers, kw_email)

\* The cell of the field called name in data row r of file j, '' without it
RawField(j, r, name) ==
    LET f == files[j]
        C == {c \in 1..Len(f.header) : f.header[c] = name}
    IN  IF C = {} THEN <<>> ELSE f.rows[r][CHOOSE c \in C : TRUE]

RecordsOfRun == {q \in {<<j, r>> : j \in 1..Len(files), r \in 1..(MaxRows + 1)} :
                    q[2] <= Len(files[q[1]].rows)}

Before(q1, q2) == q1[1] < q2[1] \/ (q1[1] = q2[1] /\ q1[2] < q2[2])

EmailKeyOf(q) == Lower(Strip(RawField(q[1], q[2], kw_email)))

PhoneDigitsOf(q) == StripNonDigits(RawField(q[1], q[2], kw_phone))

Indexable(q) == EmailKeyOf(q) # <<>> /\ Len(PhoneDigitsOf(q)) = 10

\* build_global_email_phone_map has returned
IndexBuilt == pc = "import" \/ attempted # <<>> \/ (pc = "done" /\ files # <<>>)

\* The indexable records of the run, each with its email key and its digits
IndexableRecords ==
    {<<q, EmailKeyOf(q), PhoneDigitsOf(q)>> : q \in {q \in RecordsOfRun : Indexable(q)}}

\* The index holds, for exactly the email keys of the indexable records, the
\* digits of the first indexable record of that key
FirstValidIndex(m) ==
    \E recs \in {IndexableRecords} :
        /\ \A x \in recs : x[2] \in DOMAIN m
        /\ \A k \in DOMAIN m :
            \E x \in recs :
                /\ x[2] = k
                /\ \A y \in recs : y[2] = k => ~Before(y[1], x[1])
                /\ IsNormalizedPhone(m[k])
                /\ StripNonDigits(m[k]) = x[3]

\* C1: once build_global_email_phone_map has returned, every email key maps
\* to the formatted digits of the first record, in file then row order,
\* whose email key is not empty and whose phone has exactly 10 digits; a
\* later record of the same key changes nothing.
C1_FirstValidWins == IndexBuilt => FirstValidIndex(global_email_phone_map)

\* Two indexable records share an email key and differ in their digits
C1_Witness ==
    /\ IndexBuilt
    /\ \E q1 \in RecordsOfRun, q2 \in RecordsOfRun :
        /\ Before(q1, q2)
        /\ Indexable(q1) /\ Indexable(q2)
        /\ EmailKeyOf(q1) = EmailKeyOf(q2)
        /\ PhoneDigitsOf(q1) # PhoneDigitsOf(q2)

\* C2: a row whose own phone cell normalizes to a valid phone leaves the
\* backfiller with that phone, whatever the index holds for its email key.
C2_ValidPhoneKept ==
    (Backfilled /\ PhoneColumn # 0) =>
        \A r \in 1..Len(filtered_data) :
            normalize_phone(filtered_data[r][PhoneColumn]) # None =>
                data[r + 1][PhoneColumn] = normalize_phone(filtered_data[r][PhoneColumn])

\* A row with a valid phone of its own whose email key the index maps to
\* another phone
C2_Witness ==
    /\ Backfilled /\ PhoneColumn # 0 /\ EmailColumn # 0
    /\ \E r \in 1..Len(filtered_data) :
        LET key == Lower(Strip(filtered_data[r][EmailColumn]))
        IN  /\ IsNormalizedPhone(filtered_data[r][PhoneColumn])
            /\ key \in DOMAIN global_email_phone_map
            /\ global_email_phone_map[key] # filtered_data[r][PhoneColumn]
            /\ data[r + 1][PhoneColumn] = filtered_data[r][PhoneColumn]

\* The file people.csv of the end-to-end scenario
ScenarioFile ==
    [base |-> "people", header |-> Headers[1],
     rows |-> <<RowCells(1, <<e_AX, p_555>>), RowCells(1, <<e_ax, p_bad>>)>>]

\* C3: a row whose own phone is not valid leaves the backfiller with the
\* index entry of its email key (the email cell, trimmed and lowercased), or
\* with '' when the index has none; the rows [A@X.com, (555) 123-4567] and
\* [a@x.com, bad] both end with 555.123.4567.
C3_Backfill ==
    /\ (Backfilled /\ PhoneColumn # 0 /\ EmailColumn # 0) =>
          \A r \in 1..Len(filtered_data) :
              LET key == Lower(Strip(filtered_data[r][EmailColumn]))
              IN  normalize_phone(filtered_data[r][PhoneColumn]) = None =>
                      data[r + 1][PhoneColumn] =
                          IF key \in DOMAIN global_email_phone_map
                          THEN global_email_phone_map[key] ELSE <<>>
    /\ (files = <<ScenarioFile>> /\ Backfilled) =>
          /\ global_email_phone_map = (e_ax :> f_555)
          /\ data[2][PhoneColumn] = f_555
          /\ data[3][PhoneColumn] = f_555

\* A row without a valid phone took the phone another record gave its email
\* key, which the email cell only equals once trimmed and lowercased
C3_Witness ==
    /\ Backfilled /\ PhoneColumn # 0 /\ EmailColumn # 0
    /\ \E r \in 1..Len(filtered_data) :
        /\ filtered_data[r][PhoneColumn] = None
        /\ filtered_data[r][EmailColumn] \notin DOMAIN global_email_phone_map
        /\ IsNormalizedPhone(data[r + 1][PhoneColumn])

\* C4: normalize_phone returns the 10 digits of its argument, a leading 1
\* of 11 digits dropped, as DDD.DDD.DDDD, and None for every other count.
C4_NormalizePhone ==
    phone_ret # Uncalled =>
        LET d == StripNonDigits(OrEmpty(phone_arg))
        IN  IF Len(d) = 10
            THEN IsNormalizedPhone(phone_ret) /\ StripNonDigits(phone_ret) = d
            ELSE IF Len(d) = 11 /\ d[1] = "1"
            THEN IsNormalizedPhone(phone_ret) /\ StripNonDigits(phone_ret) = Tail(d)
            ELSE phone_ret = None

\* Eleven digits with a leading 1 among other characters, normalized
C4_Witness ==
    /\ phone_ret # Uncalled
    /\ phone_ret # None
    /\ Len(StripNonDigits(OrEmpty(phone_arg))) = 11

\* C5 as claimed: no key of a transformed row is in the exclusion set.
C5_NoExcludedKey ==
    Backfilled => \A i \in 1..Len(headers) : headers[i] \notin exclude_columns

RawNames == {LastFile.header[c] : c \in 1..Len(LastFile.header)}

\* C5, amended: every key of a transformed row is a raw field name that is
\* not in the exclusion set, or the cleaned name of a raw field containing
\* "string" whose raw name is not in the exclusion set.
C5_NoExcludedRawName ==
    Backfilled =>
        \A i \in 1..Len(headers) :
            \/ /\ headers[i] \in RawNames
               /\ headers[i] \notin exclude_columns
               /\ ~Contains(headers[i], kw_string)
            \/ \E raw \in RawNames :
                /\ Contains(raw, kw_string)
                /\ raw \notin exclude_columns
                /\ CleanKey(raw) = headers[i]

\* The raw field statusstring was emitted as status, with startdate dropped
C5_Witness ==
    /\ Backfilled
    /\ n_startdate \in RawNames
    /\ h_statusstring \in RawNames
    /\ \E i \in 1..Len(headers) : headers[i] = n_status

\* C6 as claimed: no call of import_csv_to_sheet lets a failure propagate,
\* and a run that has ended after its first import has attempted every file.
C6_FailureIsolated ==
    /\ result # "raised"
    /\ (pc \in {"done", "raised"} /\ attempted # <<>>) => Len(attempted) = Len(files)

\* C7: the index is complete before the first import_csv_to_sheet, and no
\* step changes it once build_global_email_phone_map has returned.
C7_TwoPhase ==
    [][/\ attempted' # attempted => FirstValidIndex(global_email_phone_map)
       /\ IndexBuilt => global_email_phone_map' = global_email_phone_map]_vars

\* The second file was imported with an index holding a record of its own
C7_Witness ==
    /\ Len(attempted) = 2
    /\ result = "imported"
    /\ \E q \in RecordsOfRun : q[1] = 2 /\ Indexable(q)

\* C8: the backfiller keeps the number and order of the rows and every cell
\* but the one of the first phone column; without a phone or an email
\* column it changes nothing.
C8_Frame ==
    Backfilled =>
        /\ Len(data) = Len(filtered_data) + 1
        /\ \A r \in 1..Len(filtered_data) :
            /\ Len(data[r + 1]) = Len(filtered_data[r])
            /\ \A c \in 1..Len(filtered_data[r]) :
                c # PhoneColumn => data[r + 1][c] = filtered_data[r][c]
        /\ (PhoneColumn = 0 \/ EmailColumn = 0) =>
              \A r \in 1..Len(filtered_data) : data[r + 1] = filtered_data[r]

\* A row whose first phone cell was filled, its email cell left as it was
\* written and its second phone cell left empty
C8_Witness ==
    /\ Backfilled /\ PhoneColumn # 0 /\ EmailColumn # 0
    /\ \E r \in 1..Len(filtered_data) :
        /\ data[r + 1][PhoneColumn] # filtered_data[r][PhoneColumn]
        /\ Lower(Strip(data[r + 1][EmailColumn])) # data[r + 1][EmailColumn]
        /\ \E c \in 1..Len(headers) :
            /\ c # PhoneColumn
            /\ Contains(Lower(headers[c]), kw_phone)
            /\ data[r + 1][c] = None

\* C9: every value of the index, and every cell of a column of a grid whose
\* name contains "phone", is DDD.DDD.DDDD, None or ''.
C9_NormalizedOnly ==
    /\ \A k \in DOMAIN global_email_phone_map :
        IsNormalizedPhone(global_email_phone_map[k])
    /\ Backfilled =>
        \A c \in 1..Len(headers) :
            Contains(Lower(headers[c]), kw_phone) =>
                \A r \in 2..Len(data) :
                    \/ data[r][c] \in {None, <<>>}
                    \/ IsNormalizedPhone(data[r][c])

\* A grid without an email column whose raw phone (555) 123-4567 was stored
\* as 555.123.4567
C9_Witness ==
    /\ Backfilled /\ PhoneColumn # 0 /\ EmailColumn = 0
    /\ \E r \in 1..Len(LastFile.rows) :
        /\ RawField(Len(attempted), r, kw_phone) = p_555
        /\ data[r + 1][PhoneColumn] = f_555

UpdatesOf(title) == Len(SelectSeq(calls, LAMBDA c : c = <<"update", title>>))

\* C10 as claimed: after a file was processed without error its worksheet
\* was published to once and holds the header row and every transformed row.
C10_GridPublished ==
    result = "imported" =>
        /\ UpdatesOf(LastFile.base) = 1
        /\ Len(workbook[LastFile.base]) = Len(LastFile.rows) + 1

\* C10, amended: after a file with at least one data row was processed
\* without error, its worksheet was cleared or created, then published to
\* once, and holds exactly the grid: the header row and one row per data
\* row; after a file without data rows it was cleared or created, never
\* published to, and is empty.
C10_GridPublishedIfRows ==
    result = "imported" =>
        IF LastFile.rows # <<>>
        THEN /\ UpdatesOf(LastFile.base) = 1
             /\ calls[Len(calls)] = <<"update", LastFile.base>>
             /\ calls[Len(calls) - 1] \in {<<"clear", LastFile.base>>,
                                          <<"add_worksheet", LastFile.base>>}
             /\ workbook[LastFile.base] = data
             /\ Len(data) = Len(LastFile.rows) + 1
             /\ data[1] = headers
        ELSE /\ UpdatesOf(LastFile.base) = 0
             /\ workbook[LastFile.base] = <<>>

\* The sheet "people", which held the old grid, after its file was imported
C10_Witness ==
    /\ result = "imported"
    /\ LastFile.base = CsvBases[1]
    /\ LastFile.rows # <<>>
    /\ calls[Len(calls) - 1] = <<"clear", CsvBases[1]>>

====
